---------------------------- MODULE Spec2Model ----------------------------
(***************************************************************************)
(* File-transfer protocol of the nodeA repository.                         *)
(*                                                                         *)
(*   client : EnhancedFileTransferClient.send_file_with_retry and          *)
(*            FileTransferClient.send_file (one attempt, no finally)       *)
(*   server : GlobalModelReceiver.start_receiver / handle_global_model     *)
(*                                                                         *)
(* A connection is a pair of byte streams: out holds the bytes the client  *)
(* has written and the receiver has not read yet, toks the tokens the      *)
(* receiver has written and the client has not read yet.  Every socket     *)
(* call, file call and sleep of the source is one step.                    *)
(***************************************************************************)
EXTENDS Integers, Sequences, FiniteSets, TLC

(***************************************************************************)
(* Bounds of the model.                                                    *)
(***************************************************************************)
MaxFileLen == 2      \* longest file, in bytes
MaxEnvTokens == 2    \* tokens an arbitrary server sends on one connection
MaxChanges == 1      \* times the source file is rewritten during a call
MaxTime == 1         \* seconds the wall clock advances

(***************************************************************************)
(* Program constants.  chunk_size is scaled from 8192 to 1 so that files   *)
(* of MaxFileLen bytes span several chunks.                                *)
(***************************************************************************)
chunk_size == 1
retry_attempts == 3
retry_delay == 5

Byte == {0, 1}
Conns == 1..retry_attempts
Times == 0..MaxTime

NoFile == <<-1>>        \* a path at which no file exists
NoHash == -1            \* calculate_file_hash returned None
NoAck == "<none>"       \* nothing received yet

Min(a, b) == IF a < b THEN a ELSE b
Range(s) == {s[i] : i \in DOMAIN s}

Files == UNION {[1..n -> Byte] : n \in 0..MaxFileLen}

(***************************************************************************)
(* hashlib.sha256 over the bytes of a file, as a collision-free fold.      *)
(***************************************************************************)
RECURSIVE Digest(_)
Digest(s) == IF s = <<>> THEN 0 ELSE (Head(s) + 1) + 3 * Digest(Tail(s))

calculate_file_hash(f) == IF f = NoFile THEN NoHash ELSE Digest(f)

(***************************************************************************)
(* int.to_bytes(4, 'big') and int.from_bytes(.., 'big').                   *)
(***************************************************************************)
ToBytes4(n) == << (n \div 16777216) % 256, (n \div 65536) % 256,
                  (n \div 256) % 256, n % 256 >>

RECURSIVE FromBytes(_)
FromBytes(b) == IF b = <<>> THEN 0
                ELSE FromBytes(SubSeq(b, 1, Len(b) - 1)) * 256 + b[Len(b)]

(***************************************************************************)
(* json.dumps / json.loads of the metadata dictionary.  One element of    *)
(* the encoding stands for the bytes of one key/value pair; timestamp and  *)
(* node_id are written by the client and never read by the receiver.       *)
(***************************************************************************)
FileTypes == {"global_model", "model"}
FileNames == {"model_best.h5", "global_latest.h5"}

TypeCode(t) == CASE t = "global_model" -> 1 [] t = "model" -> 2 [] OTHER -> 3
NameCode(n) == CASE n = "model_best.h5" -> 1 [] n = "global_latest.h5" -> 2 [] OTHER -> 3

CodeType(k) == CASE k = 1 -> "global_model" [] k = 2 -> "model" [] OTHER -> "unknown"
CodeName(k) == CASE k = 1 -> "model_best.h5" [] k = 2 -> "global_latest.h5" [] OTHER -> "unknown"

JsonDumps(md) == << TypeCode(md.file_type), NameCode(md.file_name),
                    md.file_size, md.file_hash >>

\* bytes.decode('utf-8'): the frames of the model hold ASCII bytes, or the
\* byte 255 that no UTF-8 text contains (UnicodeDecodeError)
Utf8Valid(b) == \A i \in DOMAIN b : b[i] < 128

JsonValid(b) == /\ Len(b) = 4
                /\ b[1] \in {1, 2, 3}
                /\ b[2] \in {1, 2, 3}

JsonLoads(b) == [file_type |-> CodeType(b[1]), file_name |-> CodeName(b[2]),
                 file_size |-> b[3], file_hash |-> b[4]]

NoMeta == [file_type |-> "unknown", file_name |-> "unknown",
           file_size |-> 0, file_hash |-> NoHash]

(***************************************************************************)
(* The acknowledgement tokens of the wire format.                          *)
(***************************************************************************)
Tokens == {"READY", "INVALID_TYPE", "ERROR", "SUCCESS", "SIZE_MISMATCH", "HASH_MISMATCH"}

RECURSIVE Decode(_)
Decode(ts) == IF ts = <<>> THEN "" ELSE Head(ts) \o Decode(Tail(ts))

VARIABLES
  cl,       \* the client call: its locals and its position
  cfile,    \* the source file of the client (a byte sequence, or NoFile)
  nchg,     \* how often the source file has been rewritten
  conn,     \* conn[c]: the two streams and the two ends of connection c
  srv,      \* the receiver: running flag and position of start_receiver
  h,        \* h[c]: the handler thread of connection c
  dest,     \* global_latest.h5
  backups,  \* backups[t]: global_latest_backup_<t>.h5
  audit,    \* global_model_info.json
  log,      \* global_model_log.txt: the lines the file holds, each with its
            \* writer (a connection, or 0 for start_receiver)
  now       \* the wall clock, in seconds

vars == <<cl, cfile, nchg, conn, srv, h, dest, backups, audit, log, now>>
clientVars == <<cl, cfile, nchg>>
serverVars == <<srv, h, dest, backups, audit, log, now>>

(***************************************************************************)
(* Initial state: nothing connected, the receiver not started, the client  *)
(* about to be called on a file of the working directory.                  *)
(***************************************************************************)
NewAttempt == [sock |-> 0, sock_open |-> FALSE, ack |-> NoAck, final_ack |-> NoAck,
               bytes_sent |-> 0, fpos |-> 0, ret |-> FALSE, exc |-> "none",
               \* the values of bytes_sent the progress indicator has shown
               progress |-> <<>>,
               \* metadata_json, once it has been passed to sock.send
               frame |-> <<>>]

InitClient(variant, ft) ==
  [variant |-> variant, file_type |-> ft, pc |-> "start", attempt |-> 0,
   file_size |-> 0, file_hash |-> NoHash, a |-> NewAttempt, hist |-> <<>>,
   sleeps |-> 0, waited |-> 0, result |-> "none",
   \* send_model_and_metadata: the transfer in progress (0: none), its counter,
   \* the transfers made with their results, the file metadata.json, the result
   call |-> 0, success_count |-> 0, calls |-> <<>>, metadata_json |-> NoFile,
   comp_result |-> "none"]

InitConn == [st |-> "free", out |-> <<>>, toks |-> <<>>,
             cclosed |-> FALSE, sclosed |-> FALSE]

InitHandler == [pc |-> "idle", metadata_length |-> 0, metadata_bytes |-> <<>>,
                metadata |-> NoMeta, bytes_received |-> 0, wbuf |-> <<>>, wpos |-> 0,
                backup_path |-> -1, actual_hash |-> NoHash, sent |-> <<>>,
                path |-> ""]

InitServer == [pc |-> "init", running |-> FALSE, listening |-> FALSE]

\* the artifact of a transfer made before the clock of the model starts,
\* with its audit record
OldArtifact == <<1, 1>>
AuditOf(file, t) == [last_update |-> t, sender |-> "unknown", file_hash |-> Digest(file),
                     file_size |-> Len(file), node_id |-> "nodeA"]

\* no global_model_info.json: a record that no write produces
NoAudit == [last_update |-> -1, sender |-> "", file_hash |-> NoHash,
            file_size |-> 0, node_id |-> ""]

InitFiles ==
  /\ \/ dest = NoFile /\ audit = NoAudit
     \/ dest = OldArtifact /\ audit = AuditOf(OldArtifact, -1)
  /\ backups = [t \in Times |-> NoFile]
  /\ log = {}
  /\ now = 0

Init ==
  /\ cl \in {InitClient(v, ft) : v \in {"enhanced", "basic"}, ft \in FileTypes}
  /\ cfile \in Files \cup {NoFile}
  /\ nchg = 0
  /\ conn = [c \in Conns |-> InitConn]
  /\ srv = InitServer
  /\ h = [c \in Conns |-> InitHandler]
  /\ InitFiles

(***************************************************************************)
(* Sockets.  send writes a non-empty prefix of the data and returns its    *)
(* length, which neither side looks at.  recv(n) of the receiver returns   *)
(* the bytes that have arrived, at most n: how many have arrived is the    *)
(* sender's choice (a short send, or a peer that stops in mid-frame).      *)
(***************************************************************************)
Avail(c) == Len(conn[c].toks)

\* an arbitrary server (srv.pc = "arbitrary") reads and drops what it is sent
ClientSent(c, data, k) ==
  IF srv.pc = "arbitrary" THEN conn
  ELSE [conn EXCEPT ![c].out = @ \o SubSeq(data, 1, k)]

\* a token written to a socket whose peer has closed is lost
ServerSent(c, tok) ==
  IF conn[c].cclosed THEN conn ELSE [conn EXCEPT ![c].toks = Append(@, tok)]

\* close() of one end: unread tokens of a closed client are dropped, and
\* nothing is left of a connection both ends have closed
ClientClosed(c) ==
  IF conn[c].st = "free" THEN conn
  ELSE IF conn[c].sclosed \/ srv.pc = "arbitrary"
  THEN [conn EXCEPT ![c] = [InitConn EXCEPT !.st = "closed", !.cclosed = TRUE,
                                            !.sclosed = TRUE]]
  ELSE [conn EXCEPT ![c].cclosed = TRUE, ![c].toks = <<>>]

ServerClosed(c) ==
  IF conn[c].cclosed
  THEN [conn EXCEPT ![c] = [InitConn EXCEPT !.st = "closed", !.cclosed = TRUE,
                                            !.sclosed = TRUE]]
  ELSE [conn EXCEPT ![c].sclosed = TRUE, ![c].out = <<>>]

(***************************************************************************)
(* The client: send_file_with_retry (enhanced) and send_file (basic).      *)
(***************************************************************************)
\* a dictionary built from the file as it is when the attempt is made
Metadata_fresh == [file_type |-> cl.file_type, file_name |-> "model_best.h5",
                   file_size |-> IF cfile = NoFile THEN 0 ELSE Len(cfile),
                   file_hash |-> calculate_file_hash(cfile)]
Metadata == [file_type |-> cl.file_type, file_name |-> "model_best.h5",
             file_size |-> cl.file_size, file_hash |-> cl.file_hash]

\* if ack != "READY": return False
AckIsReady_nonempty(ack) == ack # ""
AckIsReady(ack) == ack = "READY"
\* if final_ack == "SUCCESS": return True, else return False
FinalIsSuccess_truthy(final_ack) == final_ack # ""
FinalIsSuccess(final_ack) == final_ack = "SUCCESS"

\* range(1, self.retry_attempts + 1)
InRange_single(attempt) == attempt = 1
InRange_inclusive(attempt) == attempt >= 1 /\ attempt <= retry_attempts + 1
InRange(attempt) == attempt >= 1 /\ attempt < retry_attempts + 1
\* if attempt < self.retry_attempts: time.sleep(self.retry_delay)
ShouldWait_always(attempt) == attempt <= retry_attempts
ShouldWait(attempt) == attempt < retry_attempts

\* sock.settimeout(self.timeout): a recv with nothing to read on a
\* connection the peer keeps open raises socket.timeout
RecvTimesOut_never(c) == FALSE
RecvTimesOut(c) == Avail(c) = 0 /\ ~conn[c].sclosed

Raise(e) == [cl EXCEPT !.pc = "exit", !.a.ret = FALSE, !.a.exc = e]
Return(r) == [cl EXCEPT !.pc = "exit", !.a.ret = r]

\* the for statement, reached from the call or from the end of an iteration
NextIteration(c0) ==
  IF InRange(c0.attempt + 1)
  THEN [c0 EXCEPT !.pc = "connect", !.attempt = @ + 1, !.a = NewAttempt]
  ELSE [c0 EXCEPT !.pc = "returned", !.result = "false"]

ClientStart ==
  /\ cl.pc = "start"
  /\ cl' = IF cfile = NoFile
           THEN [cl EXCEPT !.pc = "returned", !.result = "false"]
           ELSE [cl EXCEPT !.pc = "getsize"]
  /\ UNCHANGED <<cfile, nchg, conn, serverVars>>

\* os.path.getsize, outside every try block: the OSError of a path that no
\* longer exists leaves the call
ClientGetSize ==
  /\ cl.pc = "getsize"
  /\ cl' = IF cfile = NoFile
           THEN [cl EXCEPT !.pc = "raised", !.result = "exception"]
           ELSE [cl EXCEPT !.pc = "hash", !.file_size = Len(cfile)]
  /\ UNCHANGED <<cfile, nchg, conn, serverVars>>

ClientHash ==
  /\ cl.pc = "hash"
  /\ LET hv == calculate_file_hash(cfile)
         c1 == [cl EXCEPT !.file_hash = hv]
     IN cl' = IF hv = NoHash
              THEN [cl EXCEPT !.pc = "returned", !.result = "false"]
              ELSE IF cl.variant = "enhanced" THEN NextIteration(c1)
              ELSE [c1 EXCEPT !.pc = "connect", !.attempt = 1, !.a = NewAttempt]
  /\ UNCHANGED <<cfile, nchg, conn, serverVars>>

ClientConnect ==
  /\ cl.pc = "connect"
  /\ LET c == cl.attempt
         c1 == [cl EXCEPT !.a.sock = c, !.a.sock_open = TRUE]
     IN \/ /\ srv.listening \/ srv.pc = "arbitrary"
           /\ conn' = [conn EXCEPT ![c].st = "pending"]
           /\ cl' = [c1 EXCEPT !.pc = "send_len"]
        \/ /\ ~srv.listening \/ srv.pc = "arbitrary"
           /\ conn' = conn
           /\ cl' = [c1 EXCEPT !.pc = "exit", !.a.exc = "refused"]
        \/ /\ conn' = conn
           /\ cl' = [c1 EXCEPT !.pc = "exit", !.a.exc = "timeout"]
  /\ UNCHANGED <<cfile, nchg, serverVars>>

ClientSendLen ==
  /\ cl.pc = "send_len"
  /\ LET c == cl.a.sock
         data == ToBytes4(Len(JsonDumps(Metadata)))
     IN \/ \E k \in 1..Len(data) :
             /\ conn' = ClientSent(c, data, k)
             /\ cl' = [cl EXCEPT !.pc = "send_meta"]
        \/ /\ conn[c].sclosed
           /\ conn' = conn
           /\ cl' = Raise("error")
  /\ UNCHANGED <<cfile, nchg, serverVars>>

ClientSendMeta ==
  /\ cl.pc = "send_meta"
  /\ LET c == cl.a.sock
         data == JsonDumps(Metadata)
     IN \/ \E k \in 1..Len(data) :
             /\ conn' = ClientSent(c, data, k)
             /\ cl' = [cl EXCEPT !.pc = "recv_ack", !.a.frame = data]
        \/ /\ conn[c].sclosed
           /\ conn' = conn
           /\ cl' = Raise("error")
  /\ UNCHANGED <<cfile, nchg, serverVars>>

ClientRecvAck ==
  /\ cl.pc = "recv_ack"
  /\ LET c == cl.a.sock
     IN \/ \E k \in 1..Avail(c) :
             LET ack == Decode(SubSeq(conn[c].toks, 1, k))
                 c1 == [cl EXCEPT !.a.ack = ack]
             IN /\ conn' = [conn EXCEPT ![c].toks = SubSeq(@, k + 1, Len(@))]
                /\ cl' = IF AckIsReady(ack)
                         THEN [c1 EXCEPT !.pc = "open_file"]
                         ELSE [c1 EXCEPT !.pc = "exit", !.a.ret = FALSE]
        \/ /\ Avail(c) = 0 /\ conn[c].sclosed
           /\ conn' = conn
           /\ cl' = [cl EXCEPT !.pc = "exit", !.a.ack = "", !.a.ret = FALSE]
        \/ /\ RecvTimesOut(c)
           /\ conn' = conn
           /\ cl' = Raise("timeout")
  /\ UNCHANGED <<cfile, nchg, serverVars>>

ClientOpenFile ==
  /\ cl.pc = "open_file"
  /\ cl' = IF cfile = NoFile THEN Raise("error")
           ELSE [cl EXCEPT !.pc = "stream", !.a.bytes_sent = 0, !.a.fpos = 0]
  /\ UNCHANGED <<cfile, nchg, conn, serverVars>>

\* f.read(self.chunk_size) at position pos of the open file
ReadChunk_whole(f, pos) == SubSeq(f, pos + 1, Len(f))
ReadChunk(f, pos) == SubSeq(f, pos + 1, Min(pos + chunk_size, Len(f)))

ClientStream ==
  /\ cl.pc = "stream"
  /\ LET c == cl.a.sock
         chunk == ReadChunk(cfile, cl.a.fpos)
         c0 == [cl EXCEPT !.a.bytes_sent = @ + Len(chunk), !.a.fpos = @ + Len(chunk)]
         c1 == [c0 EXCEPT !.a.progress = Append(@, c0.a.bytes_sent)]
     IN IF chunk = <<>>
        THEN /\ cl' = [cl EXCEPT !.pc = "recv_final"]
             /\ conn' = conn
        ELSE \/ \E k \in 1..Len(chunk) :
                  /\ conn' = ClientSent(c, chunk, k)
                  \* progress = (bytes_sent / file_size) * 100
                  /\ cl' = IF cl.file_size = 0
                           THEN [c0 EXCEPT !.pc = "exit", !.a.ret = FALSE, !.a.exc = "error"]
                           ELSE c1
             \/ /\ conn[c].sclosed
                /\ conn' = conn
                /\ cl' = Raise("error")
  /\ UNCHANGED <<cfile, nchg, serverVars>>

ClientRecvFinal ==
  /\ cl.pc = "recv_final"
  /\ LET c == cl.a.sock
     IN \/ \E k \in 1..Avail(c) :
             LET final_ack == Decode(SubSeq(conn[c].toks, 1, k))
             IN /\ conn' = [conn EXCEPT ![c].toks = SubSeq(@, k + 1, Len(@))]
                /\ cl' = [cl EXCEPT !.pc = "exit", !.a.final_ack = final_ack,
                                    !.a.ret = FinalIsSuccess(final_ack)]
        \/ /\ Avail(c) = 0 /\ conn[c].sclosed
           /\ conn' = conn
           /\ cl' = [cl EXCEPT !.pc = "exit", !.a.final_ack = "",
                               !.a.ret = FinalIsSuccess("")]
        \/ /\ RecvTimesOut(c)
           /\ conn' = conn
           /\ cl' = Raise("timeout")
  /\ UNCHANGED <<cfile, nchg, serverVars>>

\* the socket is closed by the finally clause (enhanced), or by the explicit
\* sock.close() of the two paths that leave the try block normally (basic)
ClosesSocket_normal == cl.a.exc = "none"
ClosesSocket == cl.variant = "enhanced" \/ cl.a.exc = "none"

ClientExit ==
  /\ cl.pc = "exit"
  /\ LET c == cl.a.sock
         a1 == [cl.a EXCEPT !.sock_open = IF ClosesSocket THEN FALSE ELSE @]
         c1 == [cl EXCEPT !.a = NewAttempt,
                          !.hist = Append(@, [ret |-> a1.ret, exc |-> a1.exc,
                                              sock_open |-> a1.sock_open])]
     IN /\ conn' = IF ClosesSocket THEN ClientClosed(c) ELSE conn
        /\ cl' = IF cl.variant = "basic"
                 THEN [c1 EXCEPT !.pc = "returned",
                                 !.result = IF a1.ret THEN "true" ELSE "false"]
                 ELSE IF a1.ret THEN [c1 EXCEPT !.pc = "returned", !.result = "true"]
                 ELSE IF ShouldWait(cl.attempt) THEN [c1 EXCEPT !.pc = "sleep"]
                 ELSE NextIteration(c1)
  /\ UNCHANGED <<cfile, nchg, serverVars>>

ClientSleep ==
  /\ cl.pc = "sleep"
  /\ cl' = NextIteration([cl EXCEPT !.sleeps = @ + 1, !.waited = @ + retry_delay])
  /\ UNCHANGED <<cfile, nchg, conn, serverVars>>

(***************************************************************************)
(* The working directory of the client: the training pipeline rewrites or  *)
(* removes the source file while a call is in progress.  A change shows    *)
(* at the next read of the file, so it is taken just before one; a file    *)
(* removed while it is open stays readable, as if removed after the close. *)
(* Between two attempts the file is removed during the sleep.              *)
(***************************************************************************)
FileChange ==
  /\ cfile # NoFile /\ nchg < MaxChanges
  /\ cl.pc \in {"hash", "open_file", "stream"}
  /\ \E f \in Files \ {cfile} : cfile' = f
  /\ nchg' = nchg + 1
  /\ UNCHANGED <<cl, conn, serverVars>>

FileRemove ==
  /\ cfile # NoFile
  /\ cl.pc \in {"getsize", "hash", "open_file"}
  /\ cfile' = NoFile
  /\ UNCHANGED <<cl, nchg, conn, serverVars>>

\* the file removed while the call waits for its next attempt
FileRemoveBetween ==
  /\ cfile # NoFile
  /\ cl.pc = "sleep"
  /\ cfile' = NoFile
  /\ UNCHANGED <<cl, nchg, conn, serverVars>>

ClientNext ==
  \/ ClientStart \/ ClientGetSize \/ ClientHash \/ ClientConnect \/ ClientSendLen \/ ClientSendMeta
  \/ ClientRecvAck \/ ClientOpenFile \/ ClientStream \/ ClientRecvFinal
  \/ ClientExit \/ ClientSleep

FileNext == FileChange \/ FileRemove

(***************************************************************************)
(* An arbitrary server, for the claims about the client alone: it accepts  *)
(* or refuses each connection, reads and drops what it is sent, answers    *)
(* any tokens while the client waits for some, and closes at any time.     *)
(***************************************************************************)
Live(c) == conn[c].st \in {"pending", "accepted"} /\ ~conn[c].cclosed /\ ~conn[c].sclosed

EnvSend(c) ==
  /\ Live(c) /\ cl.pc \in {"recv_ack", "recv_final"}
  /\ Len(conn[c].toks) < MaxEnvTokens
  /\ \E tok \in Tokens : conn' = ServerSent(c, tok)
  /\ UNCHANGED <<clientVars, serverVars>>

EnvClose(c) ==
  /\ Live(c)
  /\ conn' = ServerClosed(c)
  /\ UNCHANGED <<clientVars, serverVars>>

NextClient ==
  \/ ClientNext
  \/ \E c \in Conns : EnvSend(c) \/ EnvClose(c)

SpecClient ==
  /\ cl \in {InitClient(v, ft) : v \in {"enhanced", "basic"}, ft \in FileTypes}
  /\ cfile \in Files \cup {NoFile}
  /\ nchg = 0
  /\ conn = [c \in Conns |-> InitConn]
  /\ srv = [InitServer EXCEPT !.pc = "arbitrary"]
  /\ h = [c \in Conns |-> InitHandler]
  /\ dest = NoFile /\ audit = NoAudit
  /\ backups = [t \in Times |-> NoFile]
  /\ log = {}
  /\ now = 0
  /\ [][NextClient]_vars

(***************************************************************************)
(* SpecRetry: the client against an arbitrary server, with the source file *)
(* removed during the call.                                                *)
(***************************************************************************)
\* the file rewritten while the call waits for its next attempt
FileChangeBetween ==
  /\ cfile # NoFile /\ nchg < MaxChanges
  /\ cl.pc = "sleep"
  /\ \E f \in Files \ {cfile} : cfile' = f
  /\ nchg' = nchg + 1
  /\ UNCHANGED <<cl, conn, serverVars>>

NextRetry == NextClient \/ FileRemove \/ FileRemoveBetween

SpecRetry ==
  /\ cl \in {InitClient(v, ft) : v \in {"enhanced", "basic"}, ft \in FileTypes}
  /\ cfile \in Files \cup {NoFile}
  /\ nchg = 0
  /\ conn = [c \in Conns |-> InitConn]
  /\ srv = [InitServer EXCEPT !.pc = "arbitrary"]
  /\ h = [c \in Conns |-> InitHandler]
  /\ dest = NoFile /\ audit = NoAudit
  /\ backups = [t \in Times |-> NoFile]
  /\ log = {}
  /\ now = 0
  /\ [][NextRetry]_vars

(***************************************************************************)
(* SpecDigest: send_file_with_retry against a server that accepts or       *)
(* refuses, answers a waiting client with one token or not at all and      *)
(* closes at any time, with the source file rewritten between two attempts.*)
(***************************************************************************)
EnvAnswer(c) ==
  /\ Live(c) /\ cl.pc \in {"recv_ack", "recv_final"}
  /\ conn[c].toks = <<>>
  /\ \E tok \in Tokens : conn' = ServerSent(c, tok)
  /\ UNCHANGED <<clientVars, serverVars>>

NextDigest ==
  \/ ClientNext \/ FileChangeBetween
  \/ \E c \in Conns : EnvAnswer(c) \/ EnvClose(c)

SpecDigest ==
  /\ cl = InitClient("enhanced", "model")
  /\ cfile \in Files
  /\ nchg = 0
  /\ conn = [c \in Conns |-> InitConn]
  /\ srv = [InitServer EXCEPT !.pc = "arbitrary"]
  /\ h = [c \in Conns |-> InitHandler]
  /\ dest = NoFile /\ audit = NoAudit
  /\ backups = [t \in Times |-> NoFile]
  /\ log = {}
  /\ now = 0
  /\ [][NextDigest]_vars

(***************************************************************************)
(* SpecTerminates: send_file_with_retry as a thread that is always         *)
(* scheduled, against a server that answers with one token or not at all   *)
(* and closes at any time.                                                 *)
(***************************************************************************)
NextTerminates ==
  \/ ClientNext
  \/ \E c \in Conns : EnvAnswer(c) \/ EnvClose(c)

SpecTerminates ==
  /\ cl = InitClient("enhanced", "model")
  /\ cfile \in Files \cup {NoFile}
  /\ nchg = 0
  /\ conn = [c \in Conns |-> InitConn]
  /\ srv = [InitServer EXCEPT !.pc = "arbitrary"]
  /\ h = [c \in Conns |-> InitHandler]
  /\ dest = NoFile /\ audit = NoAudit
  /\ backups = [t \in Times |-> NoFile]
  /\ log = {}
  /\ now = 0
  /\ [][NextTerminates]_vars
  /\ WF_vars(ClientNext)

(***************************************************************************)
(* send_model_and_metadata of either client class: the transfer of         *)
(* model_best.h5 (cfile), then the transfer of metadata.json (cfile from   *)
(* then on), against an arbitrary server.                                  *)
(***************************************************************************)
ModelFile == <<1>>
MetadataFile == <<0>>

\* if success_count == 2: return True; otherwise return False
CompResult_any(success_count) == success_count >= 1
CompResult(success_count) == success_count = 2

\* a call of send_file_with_retry or send_file whose sockets are new ones
Called(file_type, n) ==
  [InitClient(cl.variant, file_type) EXCEPT
     !.call = n, !.success_count = cl.success_count, !.calls = cl.calls,
     !.metadata_json = cl.metadata_json]

Counted(c0, file_type) ==
  [c0 EXCEPT !.success_count = IF cl.result = "true" THEN @ + 1 ELSE @,
             !.calls = Append(@, [file_type |-> file_type, result |-> cl.result])]

CompSendModel ==
  /\ cl.pc = "comp_model"
  /\ cl' = IF cfile # NoFile THEN Called("model", 1)
           ELSE [cl EXCEPT !.pc = "comp_metadata"]
  /\ UNCHANGED <<cfile, nchg, conn, serverVars>>

CompModelSent ==
  /\ cl.pc = "returned" /\ cl.call = 1
  /\ cl' = Counted([cl EXCEPT !.pc = "comp_metadata"], "model")
  /\ UNCHANGED <<cfile, nchg, conn, serverVars>>

CompSendMetadata ==
  /\ cl.pc = "comp_metadata"
  /\ cfile' = cl.metadata_json
  /\ IF cl.metadata_json # NoFile
     THEN /\ cl' = Called("metadata", 2)
          /\ conn' = [c \in Conns |-> InitConn]
     ELSE /\ cl' = [cl EXCEPT !.pc = "comp_return"]
          /\ conn' = conn
  /\ UNCHANGED <<nchg, serverVars>>

CompMetadataSent ==
  /\ cl.pc = "returned" /\ cl.call = 2
  /\ cl' = Counted([cl EXCEPT !.pc = "comp_return"], "metadata")
  /\ UNCHANGED <<cfile, nchg, conn, serverVars>>

CompReturn ==
  /\ cl.pc = "comp_return"
  /\ cl' = [cl EXCEPT !.pc = "comp_done",
                      !.comp_result = IF CompResult(cl.success_count)
                                      THEN "true" ELSE "false"]
  /\ UNCHANGED <<cfile, nchg, conn, serverVars>>

NextComposite ==
  \/ NextClient
  \/ CompSendModel \/ CompModelSent \/ CompSendMetadata \/ CompMetadataSent
  \/ CompReturn

SpecComposite ==
  /\ cl \in {[InitClient(v, "model") EXCEPT !.pc = "comp_model", !.metadata_json = m] :
                v \in {"enhanced", "basic"}, m \in {NoFile, MetadataFile}}
  /\ cfile \in {NoFile, ModelFile}
  /\ nchg = 0
  /\ conn = [c \in Conns |-> InitConn]
  /\ srv = [InitServer EXCEPT !.pc = "arbitrary"]
  /\ h = [c \in Conns |-> InitHandler]
  /\ dest = NoFile /\ audit = NoAudit
  /\ backups = [t \in Times |-> NoFile]
  /\ log = {}
  /\ now = 0
  /\ [][NextComposite]_vars

(***************************************************************************)
(* The receiver's files.                                                   *)
(***************************************************************************)
\* open(self.log_file, "a") and one line written
\* the log file opened with mode "w"
log_update_rewriting(w, message) == {<<w, message>>}
log_update(w, message) == log \cup {<<w, message>>}

\* a write of data at offset pos of a file another handle may have truncated
RECURSIVE Zeros(_)
Zeros(n) == IF n <= 0 THEN <<>> ELSE <<0>> \o Zeros(n - 1)

WriteAt(file, pos, data) ==
  LET base == IF file = NoFile THEN <<>> ELSE file
      head == IF Len(base) >= pos THEN SubSeq(base, 1, pos)
              ELSE base \o Zeros(pos - Len(base))
      tail == SubSeq(base, pos + Len(data) + 1, Len(base))
  IN head \o data \o tail

\* with open("global_latest.h5", 'wb'): the path does not depend on the metadata
dest_path_from_name(metadata) == metadata.file_name
dest_path(metadata) == "global_latest.h5"

\* the buffered writer of handler c written out (a flush, or the close)
Flushed(c) ==
  IF h[c].wbuf = <<>> \/ h[c].path # "global_latest.h5" THEN dest
  ELSE WriteAt(dest, h[c].wpos, h[c].wbuf)

\* if len(metadata_length_bytes) != 4: return
LengthComplete_any(metadata_length_bytes) == TRUE
LengthComplete(metadata_length_bytes) == Len(metadata_length_bytes) = 4

\* recv(min(metadata_length - len(metadata_bytes), 4096))
MetaRecvSize_fixed(metadata_length, got) == 4096
MetaRecvSize(metadata_length, got) == Min(metadata_length - got, 4096)

\* recv(min(self.chunk_size, expected_size - bytes_received))
DataRecvSize_whole(expected_size, bytes_received) == 4096
DataRecvSize(expected_size, bytes_received) ==
  Min(chunk_size, expected_size - bytes_received)

AcceptedType(file_type) == file_type = "global_model"
SizeMatches(bytes_received, expected_size) == bytes_received = expected_size
HashMatches_skipped(actual_hash, expected_hash) == TRUE
HashMatches_computed(actual_hash, expected_hash) == actual_hash # NoHash
HashMatches(actual_hash, expected_hash) == actual_hash = expected_hash

FilePcs == {"backup", "open", "recv_data", "verify_hash", "update_info"}
Running(c) == h[c].pc \notin {"idle", "done"}

\* an exception raised inside the try block: control goes to the except clause
Except(c, h0) == [h0 EXCEPT ![c].pc = "except"]
\* a return that leaves the function without passing the finally clause
Finally_skipped(c, h0) == [h0 EXCEPT ![c] = [InitHandler EXCEPT !.pc = "done"]]
\* return inside the try block: control goes to the finally clause
Finally(c, h0) == [h0 EXCEPT ![c].pc = "finally"]

Sent(c, h0, tok) == [h0 EXCEPT ![c].sent = Append(@, tok)]

(***************************************************************************)
(* handle_global_model, one thread per accepted connection.                *)
(***************************************************************************)
HBegin(c) ==
  /\ h[c].pc = "begin"
  /\ h' = [h EXCEPT ![c].pc = "recv_len"]
  /\ log' = log_update(c, "New global model update")
  /\ UNCHANGED <<clientVars, conn, srv, dest, backups, audit, now>>

HRecvLen(c) ==
  /\ h[c].pc = "recv_len"
  /\ \/ /\ conn[c].out # <<>>
        /\ LET k == Min(4, Len(conn[c].out))
               metadata_length_bytes == SubSeq(conn[c].out, 1, k)
          IN /\ conn' = [conn EXCEPT ![c].out = SubSeq(@, k + 1, Len(@))]
             /\ IF ~LengthComplete(metadata_length_bytes)
                THEN h' = Finally(c, h)
                     /\ log' = log_update(c, "Invalid metadata length received")
                ELSE /\ h' = [h EXCEPT ![c].pc = "recv_meta",
                                       ![c].metadata_length = FromBytes(metadata_length_bytes)]
                     /\ log' = log
     \/ /\ conn[c].out = <<>> /\ conn[c].cclosed
        /\ conn' = conn
        /\ \/ h' = Finally(c, h)
              /\ log' = log_update(c, "Invalid metadata length received")
           \/ h' = Except(c, h) /\ log' = log
  /\ UNCHANGED <<clientVars, srv, dest, backups, audit, now>>

HRecvMeta(c) ==
  /\ h[c].pc = "recv_meta"
  /\ IF Len(h[c].metadata_bytes) < h[c].metadata_length
     THEN \/ /\ conn[c].out # <<>>
             /\ LET k == Min(MetaRecvSize(h[c].metadata_length, Len(h[c].metadata_bytes)),
                             Len(conn[c].out))
               IN
               /\ conn' = [conn EXCEPT ![c].out = SubSeq(@, k + 1, Len(@))]
               /\ h' = [h EXCEPT ![c].metadata_bytes = @ \o SubSeq(conn[c].out, 1, k)]
               /\ log' = log
          \/ /\ conn[c].out = <<>> /\ conn[c].cclosed
             /\ conn' = conn
             /\ \/ h' = Finally(c, h)
                   /\ log' = log_update(c, "Connection lost while receiving metadata")
                \/ h' = Except(c, h) /\ log' = log
     ELSE /\ conn' = conn
          /\ IF ~Utf8Valid(h[c].metadata_bytes)
             \* not a json.JSONDecodeError: the outer except clause takes it
             THEN h' = Except(c, h) /\ log' = log
             ELSE IF JsonValid(h[c].metadata_bytes)
             THEN /\ h' = [h EXCEPT ![c].pc = "send_ready",
                                    ![c].metadata = JsonLoads(h[c].metadata_bytes)]
                  /\ log' = log_update(c, "Received metadata")
             ELSE /\ h' = Finally(c, h)
                  /\ log' = log_update(c, "Invalid JSON metadata")
  /\ UNCHANGED <<clientVars, srv, dest, backups, audit, now>>

\* a handler that goes on without sending the acknowledgement
HSendReady_omitted(c) ==
  /\ h[c].pc = "send_ready"
  /\ h' = [h EXCEPT ![c].pc = "type_check"]
  /\ UNCHANGED <<clientVars, conn, srv, dest, backups, audit, log, now>>

HSendReady(c) ==
  /\ h[c].pc = "send_ready"
  /\ \/ /\ conn' = ServerSent(c, "READY")
        /\ h' = Sent(c, [h EXCEPT ![c].pc = "type_check"], "READY")
     \/ /\ conn[c].cclosed
        /\ conn' = conn
        /\ h' = Except(c, h)
  /\ UNCHANGED <<clientVars, srv, dest, backups, audit, log, now>>

HTypeCheck(c) ==
  /\ h[c].pc = "type_check"
  /\ IF AcceptedType(h[c].metadata.file_type)
     THEN /\ h' = [h EXCEPT ![c].pc = "backup"]
          /\ conn' = conn /\ log' = log
     ELSE /\ log' = log_update(c, "Unexpected file type")
          /\ \/ /\ conn' = ServerSent(c, "INVALID_TYPE")
                /\ h' = Sent(c, Finally(c, h), "INVALID_TYPE")
             \/ /\ conn[c].cclosed
                /\ conn' = conn
                /\ h' = Except(c, h)
  /\ UNCHANGED <<clientVars, srv, dest, backups, audit, now>>

\* the copy taken after the destination has been truncated
HBackup_late(c) ==
  /\ h[c].pc = "backup"
  /\ h' = [h EXCEPT ![c].pc = "open", ![c].backup_path = now]
  /\ LET receiving == {<<c, "Receiving global model">>}
     IN IF dest # NoFile
        THEN \/ /\ backups' = [backups EXCEPT ![now] = <<>>]
                /\ log' = log_update(c, "Created backup") \cup receiving
             \/ /\ backups' = backups
                /\ log' = log_update(c, "Failed to create backup") \cup receiving
        ELSE /\ backups' = backups
             /\ log' = log \cup receiving
  /\ UNCHANGED <<clientVars, conn, srv, dest, audit, now>>

\* a failed copy that is not caught by the inner try block
HBackup_fatal(c) ==
  /\ h[c].pc = "backup"
  /\ LET receiving == {<<c, "Receiving global model">>}
     IN IF dest # NoFile
        THEN \/ /\ backups' = [backups EXCEPT ![now] = dest]
                /\ h' = [h EXCEPT ![c].pc = "open", ![c].backup_path = now]
                /\ log' = log_update(c, "Created backup") \cup receiving
             \/ /\ backups' = backups
                /\ h' = Except(c, [h EXCEPT ![c].backup_path = now])
                /\ log' = log_update(c, "Failed to create backup")
        ELSE /\ backups' = backups
             /\ h' = [h EXCEPT ![c].pc = "open", ![c].backup_path = now]
             /\ log' = log \cup receiving
  /\ UNCHANGED <<clientVars, conn, srv, dest, audit, now>>

\* shutil.copy2 of the existing global_latest.h5; a failed copy is logged
HBackup(c) ==
  /\ h[c].pc = "backup"
  /\ h' = [h EXCEPT ![c].pc = "open", ![c].backup_path = now]
  /\ LET receiving == {<<c, "Receiving global model">>}
     IN IF dest # NoFile
        THEN \/ /\ backups' = [backups EXCEPT ![now] = dest]
                /\ log' = log_update(c, "Created backup") \cup receiving
             \/ /\ backups' = backups
                /\ log' = log_update(c, "Failed to create backup") \cup receiving
        ELSE /\ backups' = backups
             /\ log' = log \cup receiving
  /\ UNCHANGED <<clientVars, conn, srv, dest, audit, now>>

HOpen(c) ==
  /\ h[c].pc = "open"
  /\ \/ /\ dest' = IF dest_path(h[c].metadata) = "global_latest.h5" THEN <<>> ELSE dest
        /\ h' = [h EXCEPT ![c].pc = "recv_data", ![c].bytes_received = 0,
                          ![c].wbuf = <<>>, ![c].wpos = 0,
                          ![c].path = dest_path(h[c].metadata)]
     \/ /\ dest' = dest
        /\ h' = Except(c, h)
  /\ UNCHANGED <<clientVars, conn, srv, backups, audit, log, now>>

HRecvData(c) ==
  /\ h[c].pc = "recv_data"
  /\ LET expected_size == h[c].metadata.file_size
         closed == [h EXCEPT ![c].wbuf = <<>>, ![c].wpos = @ + Len(h[c].wbuf)]
     IN IF h[c].bytes_received < expected_size
        THEN \/ /\ conn[c].out # <<>>
                /\ LET k == Min(DataRecvSize(expected_size, h[c].bytes_received),
                                Len(conn[c].out))
                  IN
                  /\ conn' = [conn EXCEPT ![c].out = SubSeq(@, k + 1, Len(@))]
                  /\ h' = [h EXCEPT ![c].wbuf = @ \o SubSeq(conn[c].out, 1, k),
                                    ![c].bytes_received = @ + k]
                  /\ dest' = dest /\ log' = log
             \/ /\ conn[c].out = <<>> /\ conn[c].cclosed
                /\ conn' = conn
                /\ dest' = Flushed(c)
                /\ \/ /\ h' = Finally(c, closed)
                      /\ log' = log_update(c, "Connection lost while receiving file data")
                   \/ h' = Except(c, closed) /\ log' = log
        ELSE /\ dest' = Flushed(c)
             /\ IF SizeMatches(h[c].bytes_received, expected_size)
                THEN /\ h' = [closed EXCEPT ![c].pc = "verify_hash"]
                     /\ conn' = conn /\ log' = log
                ELSE /\ log' = log_update(c, "File size mismatch")
                     /\ \/ /\ conn' = ServerSent(c, "SIZE_MISMATCH")
                           /\ h' = Sent(c, Finally(c, closed), "SIZE_MISMATCH")
                        \/ /\ conn[c].cclosed
                           /\ conn' = conn
                           /\ h' = Except(c, closed)
  /\ UNCHANGED <<clientVars, srv, backups, audit, now>>

\* the buffered writer writes its buffer out when it is full; another
\* handler working on the same file is the only one to see when
HFlush(c) ==
  /\ h[c].pc = "recv_data" /\ h[c].wbuf # <<>>
  /\ \E d \in Conns \ {c} : h[d].pc \in FilePcs
  /\ dest' = Flushed(c)
  /\ h' = [h EXCEPT ![c].wbuf = <<>>, ![c].wpos = @ + Len(h[c].wbuf)]
  /\ UNCHANGED <<clientVars, conn, srv, backups, audit, log, now>>

HVerifyHash(c) ==
  /\ h[c].pc = "verify_hash"
  /\ LET actual_hash == calculate_file_hash(dest)
         h1 == [h EXCEPT ![c].actual_hash = actual_hash]
     IN IF HashMatches(actual_hash, h[c].metadata.file_hash)
        THEN /\ h' = [h1 EXCEPT ![c].pc = "update_info"]
             /\ conn' = conn
             /\ log' = log_update(c, "Global model updated successfully")
        ELSE /\ log' = log_update(c, "Hash mismatch")
             /\ \/ /\ conn' = ServerSent(c, "HASH_MISMATCH")
                   /\ h' = Sent(c, Finally(c, h1), "HASH_MISMATCH")
                \/ /\ conn[c].cclosed
                   /\ conn' = conn
                   /\ h' = Except(c, h1)
  /\ UNCHANGED <<clientVars, srv, dest, backups, audit, now>>

\* the sender is read from the key "sender", which no modelled frame carries
HUpdateInfo(c) ==
  /\ h[c].pc = "update_info"
  /\ h' = [h EXCEPT ![c].pc = "send_success"]
  /\ \/ /\ audit' = [last_update |-> now, sender |-> "unknown",
                     file_hash |-> h[c].actual_hash, file_size |-> h[c].bytes_received,
                     node_id |-> "nodeA"]
        /\ log' = log_update(c, "Updated global_model_info.json")
     \/ /\ audit' = audit
        /\ log' = log_update(c, "Failed to update metadata")
  /\ UNCHANGED <<clientVars, conn, srv, dest, backups, now>>

HSendSuccess(c) ==
  /\ h[c].pc = "send_success"
  /\ \/ /\ conn' = ServerSent(c, "SUCCESS")
        /\ h' = Sent(c, Finally(c, h), "SUCCESS")
     \/ /\ conn[c].cclosed
        /\ conn' = conn
        /\ h' = Except(c, h)
  /\ UNCHANGED <<clientVars, srv, dest, backups, audit, log, now>>

HExcept(c) ==
  /\ h[c].pc = "except"
  /\ log' = log_update(c, "Error handling global model update")
  /\ \/ /\ conn' = ServerSent(c, "ERROR")
        /\ h' = Sent(c, Finally(c, h), "ERROR")
     \/ /\ conn[c].cclosed
        /\ conn' = conn
        /\ h' = Finally(c, h)
  /\ UNCHANGED <<clientVars, srv, dest, backups, audit, now>>

\* client_socket.close(); the thread ends and its locals with it
HFinally(c) ==
  /\ h[c].pc = "finally"
  /\ conn' = ServerClosed(c)
  /\ h' = [h EXCEPT ![c] = [InitHandler EXCEPT !.pc = "done"]]
  /\ UNCHANGED <<clientVars, srv, dest, backups, audit, log, now>>

HandlerStep(c) ==
  \/ HBegin(c) \/ HRecvLen(c) \/ HRecvMeta(c) \/ HSendReady(c) \/ HTypeCheck(c)
  \/ HBackup(c) \/ HOpen(c) \/ HRecvData(c) \/ HVerifyHash(c)
  \/ HUpdateInfo(c) \/ HSendSuccess(c) \/ HExcept(c) \/ HFinally(c)

(***************************************************************************)
(* start_receiver and stop_receiver.                                       *)
(***************************************************************************)
ServerStart ==
  /\ srv.pc = "init"
  /\ \/ /\ srv' = [srv EXCEPT !.pc = "loop", !.running = TRUE, !.listening = TRUE]
        /\ log' = log_update(0, "Global model receiver started")
     \/ /\ srv' = [srv EXCEPT !.pc = "closing"]
        /\ log' = log_update(0, "Failed to start global model receiver")
  /\ UNCHANGED <<clientVars, conn, h, dest, backups, audit, now>>

\* while self.running:
ServerLoop ==
  /\ srv.pc = "loop"
  /\ srv' = [srv EXCEPT !.pc = IF srv.running THEN "accept" ELSE "closing"]
  /\ UNCHANGED <<clientVars, conn, h, dest, backups, audit, log, now>>

\* an accept loop that handles one connection at a time
ServerAccept_serial(c) ==
  /\ srv.pc = "accept"
  /\ conn[c].st = "pending"
  /\ \A d \in Conns : ~Running(d)
  /\ conn' = [conn EXCEPT ![c].st = "accepted"]
  /\ h' = [h EXCEPT ![c].pc = "begin"]
  /\ srv' = [srv EXCEPT !.pc = "loop"]
  /\ UNCHANGED <<clientVars, dest, backups, audit, log, now>>

ServerAccept(c) ==
  /\ srv.pc = "accept"
  /\ conn[c].st = "pending"
  /\ conn' = [conn EXCEPT ![c].st = "accepted"]
  /\ h' = [h EXCEPT ![c].pc = "begin"]
  /\ srv' = [srv EXCEPT !.pc = "loop"]
  /\ UNCHANGED <<clientVars, dest, backups, audit, log, now>>

\* accept() raises: the handler logs and calls time.sleep, and the module
\* does not import time, so the NameError leaves the loop by the outer except
ServerAcceptError ==
  /\ srv.pc = "accept"
  /\ srv' = [srv EXCEPT !.pc = "closing"]
  /\ log' = log_update(0, "Server error")
            \cup {<<0, "Failed to start global model receiver">>}
  /\ UNCHANGED <<clientVars, conn, h, dest, backups, audit, now>>

\* finally: server_socket.close(); connections not yet accepted are reset
ServerClose ==
  /\ srv.pc = "closing"
  /\ srv' = [srv EXCEPT !.pc = "stopped", !.listening = FALSE]
  /\ conn' = [c \in Conns |-> IF conn[c].st = "pending"
                              THEN ServerClosed(c)[c] ELSE conn[c]]
  /\ log' = log_update(0, "Global model receiver stopped")
  /\ UNCHANGED <<clientVars, h, dest, backups, audit, now>>

stop_receiver ==
  /\ srv.running
  /\ srv' = [srv EXCEPT !.running = FALSE]
  /\ UNCHANGED <<clientVars, conn, h, dest, backups, audit, log, now>>

\* the clock is read when a backup is named
Tick ==
  /\ now < MaxTime
  /\ \E c \in Conns : h[c].pc = "backup"
  /\ now' = now + 1
  /\ UNCHANGED <<clientVars, conn, srv, h, dest, backups, audit, log>>

(***************************************************************************)
(* Spec: one attempt of the client (either class) against the receiver,    *)
(* with the source file rewritten or removed under the client.  The clock  *)
(* stands still: with one handler the name of the backup decides nothing.  *)
(***************************************************************************)
ClientAttempt ==
  \/ ClientStart \/ ClientGetSize \/ ClientHash \/ ClientConnect \/ ClientSendLen \/ ClientSendMeta
  \/ ClientRecvAck \/ ClientOpenFile \/ ClientStream \/ ClientRecvFinal \/ ClientExit

Next ==
  \/ ClientAttempt \/ FileNext
  \/ ServerStart \/ ServerLoop
  \/ \E c \in Conns : ServerAccept(c) \/ HandlerStep(c)

Spec == Init /\ [][Next]_vars

(***************************************************************************)
(* SpecWire: one attempt of the client against the receiver with the       *)
(* source file left alone: what differs between runs is how much of each   *)
(* send reaches the wire and when either side gives up.                    *)
(***************************************************************************)
NextWire ==
  \/ ClientAttempt
  \/ ServerStart \/ ServerLoop
  \/ \E c \in Conns : ServerAccept(c) \/ HandlerStep(c)

SpecWire == Init /\ [][NextWire]_vars

(***************************************************************************)
(* SpecServer: the receiver, started and stopped, against a peer that      *)
(* sends well-formed and ill-formed frames, stops in mid-frame and closes. *)
(***************************************************************************)
PeerPayloads == {<<>>, <<1>>, <<0, 1>>}

Frame(md) == ToBytes4(Len(JsonDumps(md))) \o JsonDumps(md)

Honest(P, n) == [file_type |-> "global_model", file_name |-> n,
                 file_size |-> Len(P), file_hash |-> Digest(P)]

PeerMetas(P) ==
  {[Honest(P, n) EXCEPT !.file_type = t] : t \in FileTypes, n \in FileNames}
  \cup {[Honest(P, "global_latest.h5") EXCEPT !.file_size = s] : s \in {Len(P) - 1, Len(P) + 1}}
  \cup {[Honest(P, "global_latest.h5") EXCEPT !.file_hash = Digest(Q)] : Q \in PeerPayloads \ {P}}

Prefixes(w, cuts) == {SubSeq(w, 1, k) : k \in cuts \cap (1..Len(w))}

PeerInputs ==
  \* whole frames, each followed by its payload
  UNION {{Frame(md) \o P : md \in PeerMetas(P)} : P \in PeerPayloads}
  \* an honest frame cut in the length, in the metadata and in the payload
  \cup UNION {Prefixes(Frame(Honest(P, "global_latest.h5")) \o P, {2, 6, 9}) : P \in PeerPayloads}
  \* metadata that is not JSON, and a length shorter than the metadata
  \cup {ToBytes4(4) \o <<0, 0, 0, 0>>,
        ToBytes4(4) \o <<255, 0, 0, 0>>,
        ToBytes4(3) \o JsonDumps(Honest(<<1>>, "global_latest.h5")) \o <<1>>}

PeerConnect(c, W) ==
  /\ srv.listening /\ conn[c].st = "free"
  /\ \E w \in W : conn' = [conn EXCEPT ![c].st = "pending", ![c].out = w]
  /\ UNCHANGED <<clientVars, serverVars>>

\* the close of a peer shows at the handler's next socket call
PeerClose(c) ==
  /\ conn[c].st = "accepted" /\ ~conn[c].cclosed /\ ~conn[c].sclosed
  /\ \/ h[c].pc \in {"recv_len", "recv_meta", "recv_data"} /\ conn[c].out = <<>>
     \/ h[c].pc \in {"send_ready", "type_check", "verify_hash", "send_success", "except"}
  /\ conn' = [conn EXCEPT ![c].cclosed = TRUE, ![c].toks = <<>>]
  /\ UNCHANGED <<clientVars, serverVars>>

NextServer ==
  \/ ServerStart \/ ServerLoop \/ ServerAcceptError \/ ServerClose \/ stop_receiver \/ Tick
  \/ ServerAccept(1) \/ HandlerStep(1) \/ PeerConnect(1, PeerInputs) \/ PeerClose(1)

InitIdleClient ==
  /\ cl = [InitClient("basic", "model") EXCEPT !.pc = "returned"]
  /\ cfile = NoFile
  /\ nchg = 0
  /\ conn = [c \in Conns |-> InitConn]
  /\ srv = InitServer
  /\ h = [c \in Conns |-> InitHandler]
  /\ InitFiles

SpecServer == InitIdleClient /\ [][NextServer]_vars

(***************************************************************************)
(* SpecRace: the running receiver against two simultaneous senders of the  *)
(* same artifact, one of which may fail.                                   *)
(***************************************************************************)
RaceConns == {1, 2}

FirstInputs ==
  {Frame(Honest(<<1>>, "global_latest.h5")) \o <<1>>,
   SubSeq(Frame(Honest(<<0, 1>>, "global_latest.h5")) \o <<0, 1>>, 1, 9),
   Frame([Honest(<<1>>, "global_latest.h5") EXCEPT !.file_hash = Digest(<<0, 1>>)]) \o <<1>>}

RivalInputs ==
  {Frame(Honest(P, "global_latest.h5")) \o P : P \in {<<1>>, <<0, 1>>}}

NextRace ==
  \/ ServerStart \/ ServerLoop \/ Tick
  \/ PeerConnect(1, FirstInputs) \/ PeerConnect(2, RivalInputs)
  \/ \E c \in RaceConns : \/ ServerAccept(c) \/ HandlerStep(c) \/ HFlush(c)
                           \/ PeerClose(c)

SpecRace == InitIdleClient /\ [][NextRace]_vars

(***************************************************************************)
(* Properties.                                                             *)
(***************************************************************************)
SentBy(c) == Range(h[c].sent)
Logged(c, message) == <<c, message>> \in log

\* C1 (as amended): when a transfer of an accepted type ends with the
\* receiver sending SUCCESS, global_latest.h5 is byte-identical to the file
\* the client digested and sent, and the audit record, when its best-effort
\* write succeeded, stores the digest of that file.
C1_RoundTrip ==
  \A c \in Conns : "SUCCESS" \in SentBy(c) =>
    /\ AcceptedType(cl.file_type)
    /\ dest # NoFile /\ Len(dest) = cl.file_size /\ Digest(dest) = cl.file_hash
    /\ (nchg = 0 /\ cfile # NoFile) => dest = cfile
    /\ Logged(c, "Updated global_model_info.json") =>
         audit # NoAudit /\ audit.file_hash = Digest(dest)

C1_Witness ==
  \E c \in Conns : /\ "SUCCESS" \in SentBy(c)
                   /\ Len(dest) >= 2 /\ dest = cfile
                   /\ audit # NoAudit /\ audit.file_hash = cl.file_hash

\* C1 as stated: whenever SUCCESS is sent, the audit record stores the
\* digest of the file sent.
C1_AuditAlways ==
  \A c \in Conns : "SUCCESS" \in SentBy(c) =>
    audit # NoAudit /\ audit.file_hash = cl.file_hash

\* C2 as stated: when the peer closes after fewer payload bytes than the
\* declared file_size have been received, the handler sends SIZE_MISMATCH
\* before it closes the connection.
C2_SizeMismatchSent ==
  \A c \in Conns :
    ( /\ h[c].pc = "finally" /\ conn[c].cclosed
      /\ Logged(c, "Receiving global model")
      /\ h[c].bytes_received >= 1
      /\ h[c].bytes_received < h[c].metadata.file_size )
    => "SIZE_MISMATCH" \in SentBy(c)

\* C3: when all file_size bytes are received and the digest of the file on
\* disk differs from the declared file_hash, the handler sends HASH_MISMATCH
\* (to a peer that is still connected), never sends SUCCESS, does not write
\* the audit record and leaves the received bytes at the destination path.
C3_HashMismatch ==
  \A c \in Conns :
    /\ (h[c].actual_hash # NoHash /\ h[c].actual_hash # h[c].metadata.file_hash) =>
         /\ h[c].pc \in {"finally", "except"}
         /\ "SUCCESS" \notin SentBy(c)
         /\ "HASH_MISMATCH" \in SentBy(c) \/ conn[c].cclosed
         /\ h[c].bytes_received = h[c].metadata.file_size
         /\ audit \in {NoAudit, AuditOf(OldArtifact, -1)}
         /\ dest # NoFile /\ Len(dest) = h[c].bytes_received
         /\ Digest(dest) = h[c].actual_hash
    /\ Logged(c, "Hash mismatch") =>
         /\ ~Logged(c, "Global model updated successfully")
         /\ ~Logged(c, "Updated global_model_info.json")
         /\ "SUCCESS" \notin Range(conn[c].toks)

C3_Witness ==
  \E c \in Conns : /\ h[c].pc = "finally"
                   /\ "HASH_MISMATCH" \in SentBy(c)
                   /\ Len(dest) >= 1
                   /\ Digest(dest) # h[c].metadata.file_hash

\* C4 as stated: a handler that sends INVALID_TYPE has never sent READY on
\* that connection.
C4_InvalidTypeWithoutReady ==
  \A c \in Conns : "INVALID_TYPE" \in SentBy(c) => "READY" \notin SentBy(c)

\* C5: when every connection attempt is refused, send_file_with_retry makes
\* exactly retry_attempts attempts, sleeps retry_delay between consecutive
\* attempts and not after the last one, and returns False.
C5_RetryExhaustion ==
  (cl.variant = "enhanced" /\ \A i \in DOMAIN cl.hist : cl.hist[i].exc = "refused") =>
    /\ cl.waited = cl.sleeps * retry_delay
    /\ cl.pc \in {"connect", "exit"} => cl.sleeps = Len(cl.hist)
    /\ cl.pc = "sleep" => Len(cl.hist) < retry_attempts /\ cl.sleeps = Len(cl.hist) - 1
    /\ (cl.pc = "returned" /\ cl.hist # <<>>) =>
         /\ Len(cl.hist) = retry_attempts
         /\ cl.sleeps = retry_attempts - 1
         /\ cl.waited = (retry_attempts - 1) * retry_delay
         /\ cl.result = "false"

C5_Witness ==
  /\ cl.variant = "enhanced" /\ cl.pc = "returned" /\ cl.result = "false"
  /\ Len(cl.hist) = retry_attempts
  /\ \A i \in DOMAIN cl.hist : cl.hist[i].exc = "refused"

\* C6 (as amended): when global_latest.h5 exists at the start of a transfer
\* and its best-effort copy succeeds, the backup path holds the old content
\* before the destination is opened for writing, and after SUCCESS the
\* canonical path holds the new content and the backup path the old one.
C6_BackupBeforeOverwrite ==
  \A c \in Conns : Logged(c, "Created backup") =>
    /\ h[c].pc = "open" => dest # NoFile /\ backups[h[c].backup_path] = dest
    /\ h[c].pc \in {"recv_data", "verify_hash", "update_info", "send_success"} =>
         backups[h[c].backup_path] = OldArtifact
    /\ "SUCCESS" \in SentBy(c) =>
         /\ dest # NoFile /\ Digest(dest) = h[c].metadata.file_hash
         /\ backups[h[c].backup_path] = OldArtifact

C6_Witness ==
  \E c \in Conns : /\ "SUCCESS" \in SentBy(c) /\ Logged(c, "Created backup")
                   /\ dest # OldArtifact
                   /\ backups[h[c].backup_path] = OldArtifact

\* C6 as stated: whenever global_latest.h5 existed and the transfer ends in
\* SUCCESS, a backup file holds the old content.
C6_BackupAlways ==
  \A c \in Conns :
    ( /\ "SUCCESS" \in SentBy(c)
      /\ Logged(c, "Created backup") \/ Logged(c, "Failed to create backup") )
    => backups[h[c].backup_path] = OldArtifact

\* C7: whatever the handlers of the accepted connections are doing, the
\* accept loop goes on and accepts a pending connection, and every accepted
\* connection has a handler of its own.
C7_ConcurrentAccept ==
  /\ srv.pc = "loop" => ENABLED ServerLoop
  /\ \A c \in RaceConns :
       /\ (srv.pc = "accept" /\ conn[c].st = "pending") => ENABLED ServerAccept(c)
       /\ conn[c].st = "accepted" => h[c].pc # "idle"

C7_Witness ==
  /\ h[1].pc = "recv_data" /\ conn[1].out = <<>> /\ ~conn[1].cclosed
  /\ h[2].pc = "finally" /\ "SUCCESS" \in SentBy(2)

\* C8: in a client attempt no payload byte is sent unless the acknowledgement
\* read after the metadata frame is exactly "READY"; any other value (an empty
\* read, another token, READY followed by another token) fails the attempt.
C8_ReadyGate ==
  /\ cl.a.bytes_sent > 0 => cl.a.ack = "READY"
  /\ cl.pc \in {"open_file", "stream", "recv_final"} => cl.a.ack = "READY"
  /\ (cl.pc = "exit" /\ cl.a.ack \notin {NoAck, "READY"}) =>
       ~cl.a.ret /\ cl.a.bytes_sent = 0

C8_Witness ==
  cl.pc = "exit" /\ cl.a.ack = "READYINVALID_TYPE" /\ ~cl.a.ret

\* C9: a client attempt returns True if and only if the final status it
\* reads is exactly "SUCCESS"; any other token, a closed connection or a
\* timeout makes it return False.
C9_SuccessGate ==
  cl.pc = "exit" => (cl.a.ret <=> cl.a.final_ack = "SUCCESS")

C9_Witness ==
  cl.pc = "exit" /\ cl.a.ret /\ cl.a.ack = "READY" /\ cl.a.final_ack = "SUCCESS"

\* C10: a send_file_with_retry call makes at most retry_attempts attempts,
\* each failed attempt uses up exactly one of them whatever its cause, and
\* the call returns True at its first successful attempt and makes no other.
C10_BoundedRetry ==
  cl.variant = "enhanced" =>
    /\ cl.attempt <= retry_attempts /\ Len(cl.hist) <= retry_attempts
    /\ Len(cl.hist) = IF cl.pc \in {"start", "getsize", "hash", "sleep", "returned", "raised"}
                      THEN cl.attempt ELSE cl.attempt - 1
    /\ \A i \in DOMAIN cl.hist :
         cl.hist[i].ret => i = Len(cl.hist) /\ cl.pc = "returned" /\ cl.result = "true"
    /\ cl.result = "true" => cl.hist # <<>> /\ cl.hist[Len(cl.hist)].ret
    /\ (cl.result = "false" /\ cl.hist # <<>>) => Len(cl.hist) = retry_attempts

C10_Witness ==
  /\ cl.variant = "enhanced" /\ cl.result = "true"
  /\ Len(cl.hist) = retry_attempts
  /\ cl.hist[1].exc = "timeout" /\ cl.hist[2].exc = "none"

\* C11 as stated: with the source file gone after an attempt of a
\* send_file_with_retry call, the client makes no further connection.
C11_NoConnectWithoutSource ==
  (cl.variant = "enhanced" /\ cfile = NoFile /\ cl.hist # <<>>) => cl.pc # "send_len"

\* C12: on every exit path of _send_file_single_attempt the socket opened by
\* the attempt is closed before the attempt returns: no socket of an earlier
\* attempt, and none at all between attempts or after the call, is open.
C12_SocketReleased ==
  cl.variant = "enhanced" =>
    /\ \A i \in DOMAIN cl.hist : ~cl.hist[i].sock_open
    /\ \A c \in Conns :
         (conn[c].st # "free" /\ (c < cl.attempt \/ cl.pc \in {"sleep", "returned"}))
         => conn[c].cclosed

C12_Witness ==
  /\ cl.variant = "enhanced" /\ cl.pc = "returned"
  /\ Len(cl.hist) = retry_attempts
  /\ cl.hist[1].exc = "error" /\ cl.hist[2].exc = "timeout" /\ cl.hist[3].exc = "none"
  /\ \A c \in Conns : conn[c].st = "closed"

\* C13: send_model_and_metadata makes the model transfer and then the
\* metadata transfer, the second whatever became of the first, and returns
\* True if and only if both transfers returned True.
C13_CompositeSend ==
  /\ cl.call = 2 => cl.metadata_json # NoFile
  /\ cl.pc = "comp_done" =>
       /\ cl.comp_result = "true" <=>
            (Len(cl.calls) = 2 /\ \A i \in DOMAIN cl.calls : cl.calls[i].result = "true")
       /\ cl.comp_result \in {"true", "false"}
       /\ cl.metadata_json # NoFile =>
            cl.calls # <<>> /\ cl.calls[Len(cl.calls)].file_type = "metadata"
       /\ Len(cl.calls) = 2 => cl.calls[1].file_type = "model"

C13_Witness ==
  /\ cl.pc = "comp_done" /\ cl.comp_result = "false"
  /\ Len(cl.calls) = 2
  /\ cl.calls[1].result = "false" /\ cl.calls[2].result = "true"

\* C14 as stated: once stop_receiver has been called, no connection is
\* accepted any more.
C14_NoAcceptAfterStop ==
  [][\A c \in Conns :
       (srv.pc # "init" /\ ~srv.running) =>
         ~(conn[c].st = "pending" /\ conn'[c].st = "accepted")]_vars

\* C15 as stated: after accept() has raised and the error has been logged,
\* the server is still in its accept loop with its listening socket open.
C15_AcceptErrorSurvived ==
  Logged(0, "Server error") => srv.pc \in {"loop", "accept"} /\ srv.listening

\* C16 as stated: a handler that fails (here: its peer is lost in the
\* middle of the payload) does not change the outcome of another handler: a
\* well-formed transfer on the other connection, with no error of its own
\* and its peer still connected, ends with SUCCESS.
C16_FailureIsolated ==
  ( /\ h[1].pc = "done"
    /\ Logged(1, "Connection lost while receiving file data")
    /\ h[2].pc = "finally" /\ ~conn[2].cclosed
    /\ ~Logged(2, "Error handling global model update") )
  => "SUCCESS" \in SentBy(2)

\* C17 as stated: after two concurrent handlers have ended, of which only
\* the second passed verification (it wrote the audit record and sent
\* SUCCESS), global_latest.h5 holds the payload that handler verified.
C17_LastVerifiedWins ==
  ( /\ h[1].pc = "done" /\ h[2].pc = "done"
    /\ ~Logged(1, "Global model updated successfully")
    /\ Logged(2, "Updated global_model_info.json")
    /\ "SUCCESS" \in Range(conn[2].toks) )
  => dest # NoFile /\ Digest(dest) = audit.file_hash

\* C18 as stated: as long as no transfer has passed the size check and the
\* hash check, the stored artifact is the one that was there before.
C18_StoredAfterVerification ==
  (\A c \in Conns : ~Logged(c, "Global model updated successfully")) =>
    \/ dest = NoFile /\ audit = NoAudit
    \/ dest = OldArtifact /\ audit = AuditOf(OldArtifact, -1)

\* C19: on a connection the receiver reads the metadata frame, sends the
\* acknowledgement, reads the payload, checks the size and then the hash,
\* and sends the final status, in that order: no payload byte is read before
\* READY is sent, and no final status is sent before the payload loop ended.
C19_ConnectionOrder ==
  \A c \in Conns :
    LET sent == h[c].sent
        size == h[c].metadata.file_size
    IN /\ \/ sent \in {<<>>, <<"READY">>, <<"ERROR">>}
          \/ /\ Len(sent) = 2 /\ sent[1] = "READY"
             /\ sent[2] \in Tokens \ {"READY"}
       /\ "READY" \in Range(sent) =>
            /\ Len(h[c].metadata_bytes) = h[c].metadata_length
            /\ h[c].metadata = JsonLoads(h[c].metadata_bytes)
       /\ (h[c].pc = "recv_data" \/ h[c].bytes_received > 0) =>
            sent # <<>> /\ sent[1] = "READY"
       /\ h[c].pc \in {"recv_data", "verify_hash", "update_info", "send_success"} =>
            sent = <<"READY">>
       /\ h[c].pc \in {"verify_hash", "update_info", "send_success"} =>
            h[c].bytes_received = size
       /\ "INVALID_TYPE" \in Range(sent) => h[c].bytes_received = 0
       /\ "SIZE_MISMATCH" \in Range(sent) =>
            /\ h[c].bytes_received >= size /\ h[c].bytes_received # size
            /\ h[c].actual_hash = NoHash
       /\ (\E t \in {"HASH_MISMATCH", "SUCCESS"} : t \in Range(sent)) =>
            /\ h[c].bytes_received = size
            /\ h[c].actual_hash # NoHash

C19_Witness ==
  \E c \in Conns : /\ h[c].sent = <<"READY", "SUCCESS">>
                   /\ h[c].bytes_received >= 2

\* C20: whatever file_name the sender supplies, the handler writes the
\* payload to global_latest.h5 and nowhere else, so transfers that differ
\* only in file_name store the same destination file.
C20_DestinationFromType ==
  \A c \in Conns :
    /\ h[c].pc \in {"recv_data", "verify_hash", "update_info", "send_success"} =>
         h[c].path = "global_latest.h5"
    /\ "SUCCESS" \in SentBy(c) =>
         /\ h[c].path = "global_latest.h5"
         /\ dest # NoFile /\ Digest(dest) = h[c].metadata.file_hash

C20_Witness ==
  \E c \in Conns : /\ "SUCCESS" \in SentBy(c)
                   /\ h[c].metadata.file_name = "model_best.h5"
                   /\ Len(dest) >= 1 /\ Digest(dest) = h[c].metadata.file_hash

\* C21: send_file_with_retry and send_file return a boolean on every path
\* and never let an exception reach the caller.
C21_NeverThrows == cl.result # "exception"

C23_SuccessOnlyVerified ==
  \A c \in Conns :
    LET verdicts == {i \in DOMAIN h[c].sent :
                       h[c].sent[i] \in {"SUCCESS", "SIZE_MISMATCH", "HASH_MISMATCH"}}
    IN /\ (h[c].pc = "send_success" \/ "SUCCESS" \in SentBy(c)) =>
            /\ h[c].bytes_received = h[c].metadata.file_size
            /\ h[c].actual_hash # NoHash
            /\ h[c].actual_hash = h[c].metadata.file_hash
       /\ Cardinality(verdicts) <= 1

C23_Witness ==
  \E c, d \in Conns :
    /\ c # d /\ Running(d)
    /\ "SUCCESS" \in SentBy(c) /\ h[c].bytes_received = 2

\* C24: the receiver sends SUCCESS first and updates global_model_info.json
\* afterwards, so a connection whose handler has ended with the audit record
\* updated is one on which SUCCESS was sent.
C24_AuditAfterSuccess ==
  \A c \in Conns :
    (h[c].pc = "finally" /\ Logged(c, "Updated global_model_info.json")) =>
      "SUCCESS" \in SentBy(c)

\* C25: every way a handler ends (a final token, or an abort that sends
\* nothing) passes the finally clause, which closes the socket of the
\* connection: the socket is open while the handler runs, it is closed by
\* the one step that ends the handler, and the ended handler takes no
\* further step on the connection.
C25_Terminal(c) ==
  \/ \E t \in {"SUCCESS", "SIZE_MISMATCH", "HASH_MISMATCH", "INVALID_TYPE", "ERROR"} :
       t \in SentBy(c)
  \/ \E m \in {"Invalid metadata length received", "Connection lost while receiving metadata",
               "Invalid JSON metadata", "Connection lost while receiving file data",
               "Error handling global model update"} : Logged(c, m)

C25_ClosedOnce ==
  /\ [](\A c \in Conns :
          /\ Running(c) => conn[c].st = "accepted" /\ ~conn[c].sclosed
          /\ h[c].pc = "done" => conn[c].sclosed
          /\ C25_Terminal(c) => h[c].pc \in {"finally", "done"})
  /\ [][\A c \in Conns :
          /\ (conn[c].st = "accepted" /\ ~conn[c].sclosed /\ conn'[c].sclosed) =>
               h[c].pc = "finally" /\ h'[c].pc = "done"
          /\ h[c].pc = "done" =>
               /\ h'[c] = h[c]
               /\ conn'[c].sclosed
               /\ Len(conn'[c].toks) <= Len(conn[c].toks)
               /\ Len(conn'[c].out) <= Len(conn[c].out)]_vars

C25_Witness ==
  \E c \in Conns : /\ h[c].pc = "done" /\ conn[c].sclosed
                   /\ Logged(c, "Invalid JSON metadata")
                   /\ ~Logged(c, "Error handling global model update")

\* the files of the receiver are those of the initial state
FilesUntouched ==
  /\ \/ dest = NoFile /\ audit = NoAudit
     \/ dest = OldArtifact /\ audit = AuditOf(OldArtifact, -1)
  /\ \A t \in Times : backups[t] = NoFile

\* C26: when the first read of a connection returns fewer than 4 bytes (none
\* after an immediate close, or a part of the prefix), the handler aborts:
\* it sends no token and leaves global_latest.h5, the backups and
\* global_model_info.json as they were.
C26_ShortLengthAborts ==
  /\ [](\A c \in Conns :
          Logged(c, "Invalid metadata length received") =>
            /\ h[c].pc \in {"finally", "done"}
            /\ h[c].sent = <<>> /\ conn[c].toks = <<>>
            /\ FilesUntouched)
  /\ [][\A c \in Conns :
          (/\ h[c].pc = "recv_len" /\ Len(conn[c].out) < 4
           /\ h'[c].pc \notin {"recv_len", "except"}) =>
            /\ h'[c].pc = "finally" /\ h'[c].sent = <<>>
            /\ Logged(c, "Invalid metadata length received")']_vars

C26_Witness ==
  \E c \in Conns : /\ Logged(c, "Invalid metadata length received")
                   /\ h[c].pc = "finally"
                   /\ ~conn[c].cclosed
                   /\ dest = OldArtifact

\* C27: the handler takes the metadata from the stream in order and stops
\* at metadata_length bytes, so what follows stays in the stream as payload;
\* READY is sent only after metadata_length bytes that parse as JSON, and a
\* connection lost before that, or bytes that are not JSON, end the handler
\* with no token sent and the receiver's files as they were.
C27_MetadataFrame ==
  /\ [](\A c \in Conns :
          /\ Len(h[c].metadata_bytes) <= h[c].metadata_length
          /\ (h[c].pc = "send_ready" \/ "READY" \in SentBy(c)) =>
               /\ Len(h[c].metadata_bytes) = h[c].metadata_length
               /\ Utf8Valid(h[c].metadata_bytes) /\ JsonValid(h[c].metadata_bytes)
          /\ (/\ h[c].pc \notin {"idle", "begin", "recv_len", "recv_meta", "done"}
              /\ Len(h[c].metadata_bytes) = h[c].metadata_length
              /\ ~(Utf8Valid(h[c].metadata_bytes) /\ JsonValid(h[c].metadata_bytes))) =>
               /\ h[c].pc \in {"finally", "except"}
               /\ "READY" \notin SentBy(c)
               /\ FilesUntouched
          /\ (\/ Logged(c, "Connection lost while receiving metadata")
              \/ Logged(c, "Invalid JSON metadata")) =>
               /\ h[c].pc \in {"finally", "done"}
               /\ h[c].sent = <<>> /\ conn[c].toks = <<>>
               /\ FilesUntouched)
  /\ [][\A c \in Conns :
          (h[c].pc = "recv_meta" /\ h'[c].pc = "recv_meta") =>
            h'[c].metadata_bytes \o conn'[c].out = h[c].metadata_bytes \o conn[c].out]_vars

C27_Witness ==
  \E c \in Conns : /\ h[c].pc = "send_ready"
                   /\ Len(h[c].metadata_bytes) = 4
                   /\ conn[c].out = <<0, 1>>
                   /\ h[c].metadata.file_size = 2

\* C28: a failed copy of the existing global_latest.h5 is logged and the
\* handler goes on to receive the payload; no backup file exists then, and
\* when the transfer ends with SUCCESS the destination holds the new content.
C28_BackupFailureNonFatal ==
  /\ [](\A c \in Conns :
          Logged(c, "Failed to create backup") =>
            /\ Logged(c, "Receiving global model")
            /\ ~Logged(c, "Created backup")
            /\ \A t \in Times : backups[t] = NoFile
            /\ "SUCCESS" \in SentBy(c) =>
                 dest # NoFile /\ Digest(dest) = h[c].metadata.file_hash)
  /\ [][\A c \in Conns :
          h[c].pc = "backup" => h'[c].pc \in {"backup", "open"}]_vars

C28_Witness ==
  \E c \in Conns : /\ Logged(c, "Failed to create backup")
                   /\ "SUCCESS" \in SentBy(c)
                   /\ dest # OldArtifact
                   /\ \A t \in Times : backups[t] # OldArtifact

\* C29: file_size and file_hash are computed before the first attempt of
\* send_file_with_retry and not again; the metadata frame of every attempt
\* carries these two values, also when the file has been rewritten since.
C29_DigestOnce ==
  /\ [](cl.a.frame # <<>> =>
          cl.a.frame = JsonDumps([file_type |-> cl.file_type, file_name |-> "model_best.h5",
                                  file_size |-> cl.file_size, file_hash |-> cl.file_hash]))
  /\ [][/\ cl.attempt >= 1 =>
             cl'.file_size = cl.file_size /\ cl'.file_hash = cl.file_hash
        /\ (cl.pc = "send_meta" /\ cl'.pc = "recv_ack") => cl'.a.frame # <<>>]_vars

C29_Witness ==
  /\ cl.attempt >= 2 /\ cl.pc = "recv_ack"
  /\ nchg >= 1 /\ cfile # NoFile
  /\ Len(cfile) # cl.file_size /\ Digest(cfile) # cl.file_hash
  /\ cl.a.frame[3] = cl.file_size /\ cl.a.frame[4] = cl.file_hash

\* C30: in send_file_with_retry an acknowledgement other than READY
\* (INVALID_TYPE included) makes the attempt one failed attempt like any
\* other: the call waits and makes the next attempt, until retry_attempts
\* attempts have been made, and every attempt sends the same file_type.
C30_BlindRetry ==
  /\ [](cl.a.frame # <<>> => cl.a.frame[1] = TypeCode(cl.file_type))
  /\ [][(cl.variant = "enhanced" /\ cl' # cl) =>
          /\ cl'.file_type = cl.file_type
          /\ (cl.pc = "recv_ack" /\ cl'.pc # "recv_ack" /\ cl'.a.exc = "none"
              /\ cl'.a.ack # "READY") => cl'.pc = "exit" /\ ~cl'.a.ret
          /\ (cl.pc = "exit" /\ cl.a.ack \notin {NoAck, "READY"}) =>
               /\ Len(cl'.hist) = cl.attempt
               /\ cl'.hist[cl.attempt] = [ret |-> FALSE, exc |-> "none", sock_open |-> FALSE]
               /\ IF cl.attempt < retry_attempts
                  THEN cl'.pc = "sleep" /\ cl'.attempt = cl.attempt
                  ELSE cl'.pc = "returned" /\ cl'.result = "false"
          /\ cl.pc = "sleep" =>
               cl'.pc = "connect" /\ cl'.attempt = cl.attempt + 1]_vars

C30_Witness ==
  /\ cl.variant = "enhanced" /\ cl.attempt = retry_attempts
  /\ cl.pc = "exit" /\ cl.a.ack = "INVALID_TYPE"
  /\ Len(cl.hist) = retry_attempts - 1
  /\ \A i \in DOMAIN cl.hist : ~cl.hist[i].ret /\ cl.hist[i].exc = "none"
  /\ cl.sleeps = retry_attempts - 1

\* C31: send_file of the basic client closes the socket it opened on every
\* exit path: no socket of a finished call is open.
C31_BasicSocketReleased ==
  cl.variant = "basic" =>
    /\ \A i \in DOMAIN cl.hist : ~cl.hist[i].sock_open
    /\ \A c \in Conns : (conn[c].st # "free" /\ cl.pc = "returned") => conn[c].cclosed

\* a sender that has been sent READY and neither sends the rest of its
\* payload nor closes
Stalled(c) ==
  /\ h[c].pc = "recv_data" /\ h[c].sent = <<"READY">>
  /\ h[c].bytes_received < h[c].metadata.file_size
  /\ conn[c].out = <<>> /\ ~conn[c].cclosed

\* C32: client_socket.recv has no timeout: while a sender stalls, its handler
\* has no step to take and stays in the receive loop, and the accept loop
\* and the handlers of other connections can take theirs.
C32_NoServerTimeout ==
  \A c \in Conns : Stalled(c) =>
    /\ ~ENABLED HandlerStep(c)
    /\ \A d \in Conns \ {c} :
         /\ (srv.pc = "accept" /\ conn[d].st = "pending") => ENABLED ServerAccept(d)
         /\ (\/ h[d].pc \in {"begin", "send_ready", "type_check", "backup", "open",
                             "verify_hash", "update_info", "send_success", "except",
                             "finally"}
             \/ h[d].pc \in {"recv_len", "recv_meta", "recv_data"} /\ conn[d].out # <<>>)
              => ENABLED HandlerStep(d)
    /\ srv.pc = "loop" => ENABLED ServerLoop

C32_Witness ==
  \E c, d \in Conns : /\ c # d /\ Stalled(c)
                      /\ "SUCCESS" \in SentBy(d)
                      /\ Logged(c, "Receiving global model")
                      /\ srv.pc = "accept"

\* C33: every call of send_file_with_retry returns, whatever the server
\* does: no socket call blocks for ever and the attempts are bounded.
C33_ClientTerminates == <>(cl.pc = "returned")

C33_Witness ==
  /\ cl.pc = "returned" /\ cl.result = "false"
  /\ Len(cl.hist) = retry_attempts
  /\ \A i \in DOMAIN cl.hist : cl.hist[i].exc = "timeout"
  /\ \E c \in Conns : conn[c].st # "free"

C37_AuditMatchesArtifact ==
  ((\A c \in Conns : ~Running(c)) /\ audit # NoAudit) =>
    /\ dest # NoFile
    /\ audit.file_hash = Digest(dest)
    /\ audit.file_size = Len(dest)

\* C38: every backup file holds a complete artifact: the file that was
\* there before the first transfer, or a payload that a handler verified.
C38_BackupIsVerified ==
  \A t \in Times :
    \/ backups[t] \in {NoFile, OldArtifact}
    \/ /\ backups[t] \in {<<1>>, <<0, 1>>}
       /\ \E c \in Conns : Logged(c, "Global model updated successfully")

\* C39: a backup file, once written, is never written again: every backup
\* goes to a path no earlier backup has used.
C39_BackupNeverOverwritten ==
  [][\A t \in Times : backups[t] # NoFile => backups'[t] = backups[t]]_vars

====
